---- MODULE Spec2Model ----
(***************************************************************************)
(* The reconciliation host of solid-three (src/unnamed/part_001, the       *)
(* renderer passed to createRenderer): tree nodes (Instance), the objects  *)
(* they wrap, the catalogue, the attachment manager, the path resolver and *)
(* the property applier, with the part of THREE.Object3D the host calls    *)
(* (add, remove, children, parent).                                        *)
(***************************************************************************)
EXTENDS Integers, Sequences, FiniteSets, TLC

(***************************************************************************)
(* Bounds of the model.                                                    *)
(***************************************************************************)
\* number of nodes createElement may allocate
MaxNodes == 3
\* number of host operations in a run
MaxOps == 7
\* number of host operations in a run of the property scenarios
MaxSets == 5

(***************************************************************************)
(* JavaScript values.  Every value is a record of the same shape so that   *)
(* any two values can be compared: t is the value's typeof/kind, i the     *)
(* object identity, function identity or number, s the dash-separated      *)
(* segments of a string ("foo-0" is <<"foo", "0">>), a the numbers of an   *)
(* array of numbers.                                                       *)
(***************************************************************************)
Undef == [t |-> "undefined", i |-> 0, s |-> <<>>, a |-> <<>>]
Null == [t |-> "null", i |-> 0, s |-> <<>>, a |-> <<>>]
Obj(o) == [t |-> "object", i |-> o, s |-> <<>>, a |-> <<>>]
Str(p) == [t |-> "string", i |-> 0, s |-> p, a |-> <<>>]
Num(n) == [t |-> "number", i |-> n, s |-> <<>>, a |-> <<>>]
Fn(f) == [t |-> "function", i |-> f, s |-> <<>>, a |-> <<>>]
Arr(ns) == [t |-> "array", i |-> 0, s |-> <<>>, a |-> ns]

\* record[key] of a JavaScript object kept as a function from its own keys: a
\* property that is absent reads as undefined
Prop(record, key) == IF key \in DOMAIN record THEN record[key] ELSE Undef

\* JavaScript truthiness, as used by `if (child.props.attach)` and `!child.object`
Truthy(v) ==
  CASE v.t \in {"undefined", "null"} -> FALSE
    [] v.t = "string" -> v.s # <<>>
    [] v.t = "number" -> v.i # 0
    [] OTHER -> TRUE

IsNullish(v) == v.t \in {"undefined", "null"}

(***************************************************************************)
(* Identities.  Nodes are numbered in creation order; Root is the          *)
(* container the demo passes to render.  Objects are numbered: the scene,  *)
(* one externally built object handed to <primitive object={...}>, the     *)
(* values a slot of the scene may hold before anything is attached to it   *)
(* (a plain holder object in `foo`, a Color in the holder's `bar`), the    *)
(* arrays attach creates, the members of the externally built object (a    *)
(* Color, a Vector2, a Layers) and the Color and Vector2 given as prop     *)
(* values, and for node n the object `new target(...)` returns.            *)
(***************************************************************************)
Root == 0
NoNode == -1
Scene == 1
ExtObject == 2
DefaultFoo == 3
DefaultBar == 6
TargetColor == 101
TargetVector == 102
TargetLayers == 103
ValueColor == 104
ValueVector == 105
ObjBase == 10
ObjOf(n, k) == ObjBase * n + k

NodeIds == 1..MaxNodes

\* element type names createElement is called with
Types == {"gridHelper", "meshBasicMaterial", "primitive"}
\* the types of the children of the attachment scenarios
AttachTypes == {"color", "meshBasicMaterial"}

\* THREE classes
Object3DClasses == {"Scene", "Object3D", "GridHelper"}
MaterialClasses == {"MeshBasicMaterial"}
GeometryClasses == {"BufferGeometry"}
\* classes whose instances have a dispose() method
DisposableClasses == {"GridHelper", "MeshBasicMaterial", "BufferGeometry"}
\* classes whose instances have set()/copy()
SetClasses == {"Color", "Vector2", "Layers"}

\* insertion order of the keys of props, the order `for (const prop in props)` visits
PropOrder == <<"args", "object", "dispose", "attach", "name", "color", "uv", "layers">>
\* a prop name as its dash-separated segments
Segs(prop) == <<prop>>

VARIABLES
  nodes,      \* node id -> Instance {type, parent, children, object, props}
  objs,       \* object id -> the object's class, graph links, own fields, disposed flag
  catalogue,  \* the registered classes, by PascalCase name
  news,       \* node id -> number of times `new target(...)` ran for the node
  result,     \* outcome of the last host operation: "ok" or the error thrown
  disposals,  \* the dispose() calls the last host operation made, in order
  ops,        \* number of host operations made so far
  probe       \* the attach/detach calls made so far, each with the value the
              \* child's attach path led to just before the call

vars == <<nodes, objs, catalogue, news, result, disposals, ops, probe>>

(***************************************************************************)
(* Objects.                                                                *)
(***************************************************************************)
\* an object: its class, its graph links when it is an Object3D (parent,
\* children), its other own properties (fields, among them the hidden
\* __previousAttach) and whether dispose() was called on it
NewObject(cls) ==
  [cls |-> cls, parent |-> Null, children |-> <<>>, fields |-> << >>, disposed |-> FALSE]

PreviousAttach == "__previousAttach"

ClassOf(os, v) == IF v.t = "object" /\ v.i \in DOMAIN os THEN os[v.i].cls ELSE "none"

\* root[key]
Get(os, v, key) ==
  IF v.t = "object" /\ v.i \in DOMAIN os THEN Prop(os[v.i].fields, key) ELSE Undef

\* root[key] = value, for root an object
Put(os, v, key, value) == [os EXCEPT ![v.i].fields = (key :> value) @@ @]

\* delete object[key]
Delete(os, o, key) ==
  [os EXCEPT ![o].fields = [k \in (DOMAIN @) \ {key} |-> @[k]]]

\* target?.set
HasSet(os, v) == ClassOf(os, v) \in SetClasses

IsObject3D(os, v) == ClassOf(os, v) \in Object3DClasses
IsMaterial(os, v) == ClassOf(os, v) \in MaterialClasses
IsBufferGeometry(os, v) == ClassOf(os, v) \in GeometryClasses
IsArray(os, v) == ClassOf(os, v) = "Array"

Range(seq) == {seq[i] : i \in 1..Len(seq)}

\* Array.prototype.indexOf on a sequence: 0 when absent, else the first position (1-based)
IndexOf(seq, x) ==
  IF \E i \in 1..Len(seq) : seq[i] = x
  THEN CHOOSE i \in 1..Len(seq) : seq[i] = x /\ \A j \in 1..(i - 1) : seq[j] # x
  ELSE 0

\* seq.splice(i, 1) for a 1-based position i of seq
RemoveAt(seq, i) == SubSeq(seq, 1, i - 1) \o SubSeq(seq, i + 1, Len(seq))

\* seq.splice(i, 0, x) for a 0-based index i >= 0: beyond the end it appends
InsertAt(seq, i, x) ==
  IF i >= Len(seq) THEN Append(seq, x)
  ELSE SubSeq(seq, 1, i) \o <<x>> \o SubSeq(seq, i + 1, Len(seq))

\* THREE.Object3D#remove(object)
Object3DRemove(os, p, o) ==
  LET index == IndexOf(os[p].children, o)
  IN IF index # 0
     THEN [os EXCEPT ![o].parent = Null, ![p].children = RemoveAt(os[p].children, index)]
     ELSE os

\* THREE.Object3D#add(object), for object an Object3D
Object3DAdd(os, p, o) ==
  IF o = p THEN os
  ELSE LET os1 == IF os[o].parent # Null THEN Object3DRemove(os, os[o].parent.i, o) ELSE os
       IN [os1 EXCEPT ![o].parent = Obj(p), ![p].children = Append(os1[p].children, o)]

(***************************************************************************)
(* Path Resolver.  A key is the sequence of its dash-separated segments.   *)
(***************************************************************************)
\* chain.reduce((acc, key) => acc[key], root); err when a property of undefined or null is read
RECURSIVE Walk(_, _, _)
Walk(os, acc, chain) ==
  IF chain = <<>> THEN [v |-> acc, err |-> FALSE]
  ELSE IF IsNullish(acc) THEN [v |-> Undef, err |-> TRUE]
  ELSE Walk(os, Get(os, acc, Head(chain)), Tail(chain))

Front(chain) == SubSeq(chain, 1, Len(chain) - 1)
Last(chain) == chain[Len(chain)]

\* whether resolve switches root to the leaf's parent: `if (!target?.set)`
SwitchRoot(os, target) == ~HasSet(os, target)

resolve(os, root, key) ==
  IF IsNullish(root) THEN [root |-> root, key |-> "", target |-> Undef, err |-> TRUE]
  ELSE IF Len(key) <= 1
  THEN LET k == IF key = <<>> THEN "" ELSE key[1]
       IN [root |-> root, key |-> k, target |-> Get(os, root, k), err |-> FALSE]
  ELSE LET w == Walk(os, root, key)
       IN IF w.err THEN [root |-> root, key |-> Last(key), target |-> Undef, err |-> TRUE]
          ELSE [root |-> IF SwitchRoot(os, w.v) THEN Walk(os, root, Front(key)).v ELSE root,
                key |-> Last(key), target |-> w.v, err |-> FALSE]

\* INDEX_REGEX = /-\d+$/ : the string ends with a dash and digits
Digits == {"0", "1"}
IndexRegexTest(key) == Len(key) >= 2 /\ Last(key) \in Digits
\* key.replace(INDEX_REGEX, '')
IndexRegexStrip(key) == IF IndexRegexTest(key) THEN Front(key) ELSE key

(***************************************************************************)
(* Machine state threaded through a handler: the nodes, the objects, the   *)
(* construction counts, the dispose() calls made so far and the error      *)
(* thrown ("none" while the handler is still running normally).            *)
(***************************************************************************)
Throw(st, e) == [st EXCEPT !.err = e]

\* ids of the arrays `root[key] = []` may create
ArrayIds == {4, 5}
ArrayFull(os) == ArrayIds \subseteq DOMAIN os
NewArrayId(os) == CHOOSE a \in ArrayIds : a \notin DOMAIN os /\ \A b \in ArrayIds : b \notin DOMAIN os => a <= b

\* root[key] = value where root may be anything: assigning a property of a
\* non-object throws in a module (strict mode)
Assign(st, root, key, value) ==
  IF root.t # "object" THEN Throw(st, "TypeError")
  ELSE [st EXCEPT !.objs = Put(st.objs, root, key, value)]

(***************************************************************************)
(* User-supplied attach functions (type Attach): installer 1 installs the  *)
(* child into parent.bar and returns a reversal callback that clears it.   *)
(***************************************************************************)
Installer == 1
Reversal == 2
Call(st, f, parentObject, childObject) ==
  IF f.t # "function" THEN [st |-> Throw(st, "TypeError"), ret |-> Undef]
  ELSE IF f.i = Installer
  THEN [st |-> Assign(st, parentObject, "bar", childObject), ret |-> Fn(Reversal)]
  ELSE [st |-> Assign(st, parentObject, "bar", Undef), ret |-> Undef]

(***************************************************************************)
(* Attachment Manager.                                                     *)
(***************************************************************************)
\* lines 61-65: if attaching into an array (foo-0), create one
EnsureArray(st, parentObject, key) ==
  IF ~IndexRegexTest(key) THEN st
  ELSE LET r == resolve(st.objs, parentObject, IndexRegexStrip(key))
       IN IF r.err THEN Throw(st, "TypeError")
          ELSE IF IsArray(st.objs, Get(st.objs, r.root, r.key)) THEN st
          ELSE IF ArrayFull(st.objs) THEN Throw(st, "bound")
          ELSE LET a == NewArrayId(st.objs)
               IN Assign([st EXCEPT !.objs = st.objs @@ (a :> NewObject("Array"))],
                         r.root, r.key, Obj(a))

\* the slot detach writes __previousAttach back into
DetachSlot(os, parentObject, key) == resolve(os, parentObject, key)

attach(st, parent, child) ==
  LET a == Prop(st.nodes[child].props, "attach")
      po == st.nodes[parent].object
      co == st.nodes[child].object
  IN IF a.t = "string"
     THEN LET st1 == EnsureArray(st, po, a.s)
              r == resolve(st1.objs, po, a.s)
          IN IF st1.err # "none" THEN st1
             ELSE IF r.err THEN Throw(st1, "TypeError")
             ELSE Assign([st1 EXCEPT !.objs = Put(st1.objs, co, PreviousAttach, Get(st1.objs, r.root, r.key))],
                         r.root, r.key, co)
     ELSE IF a.t = "function"
     THEN LET c == Call(st, a, po, co)
          IN IF c.st.err # "none" THEN c.st
             ELSE [c.st EXCEPT !.objs = Put(c.st.objs, co, PreviousAttach, c.ret)]
     ELSE st

detach(st, parent, child) ==
  LET a == Prop(st.nodes[child].props, "attach")
      po == st.nodes[parent].object
      co == st.nodes[child].object
      st1 == IF a.t = "string"
             THEN LET r == DetachSlot(st.objs, po, a.s)
                  IN IF r.err THEN Throw(st, "TypeError")
                     ELSE Assign(st, r.root, r.key, Get(st.objs, co, PreviousAttach))
             ELSE IF a.t = "function"
             THEN Call(st, Get(st.objs, co, PreviousAttach), po, co).st
             ELSE st
  IN IF st1.err # "none" THEN st1
     ELSE [st1 EXCEPT !.objs = Delete(st1.objs, co.i, PreviousAttach)]

(***************************************************************************)
(* Property Applier.                                                       *)
(***************************************************************************)
\* the reserved keys without 'dispose'
RESERVED_PROPS_WithoutDispose == {"args", "object", "attach"}

RESERVED_PROPS == {"args", "object", "dispose", "attach"}

CopyClasses == {"Color", "Vector2"}
ScalarClasses == {"Color", "Vector2"}
ColorClasses == {"Color"}
MaskClasses == {"Layers"}
Components(cls) ==
  IF cls \in ColorClasses THEN <<"r", "g", "b">>
  ELSE IF cls \in MaskClasses THEN <<"mask">>
  ELSE <<"x", "y">>

\* which write applyProps picks for a target and a value (lines 106-110)
Strategy(os, target, value) ==
  IF ~HasSet(os, target) THEN "assign"
  ELSE IF ClassOf(os, target) \in CopyClasses /\ IsNullish(value) THEN "TypeError"
  ELSE IF ClassOf(os, target) \in CopyClasses /\ ClassOf(os, value) = ClassOf(os, target) THEN "copy"
  ELSE IF value.t = "array" THEN "spread"
  ELSE IF ClassOf(os, target) \notin ColorClasses /\ ClassOf(os, target) \in ScalarClasses THEN "setScalar"
  ELSE "set"

\* the fields of an object with its components comps written by write(k)
WriteComponents(os, target, write(_)) ==
  LET comps == Components(os[target.i].cls)
      old == os[target.i].fields
  IN [os EXCEPT ![target.i].fields =
        [f \in DOMAIN old \cup Range(comps) |->
           IF f \in Range(comps) THEN write(CHOOSE k \in 1..Len(comps) : comps[k] = f)
           ELSE old[f]]]

\* target.set(...args) for a Vector2, a Color or a Layers: a Color given one
\* number decodes it as a hex code, a Layers sets the bit of the channel
SetArgs(os, target, args) ==
  LET hex(k) == Num((args[1].i \div (IF k = 1 THEN 65536 ELSE IF k = 2 THEN 256 ELSE 1)) % 256)
      channel == IF Len(args) >= 1 /\ args[1].t = "number" /\ args[1].i \in 0..31 THEN args[1].i ELSE 0
      write(k) == IF os[target.i].cls \in ColorClasses /\ Len(args) = 1 /\ args[1].t = "number"
                  THEN hex(k)
                  ELSE IF os[target.i].cls \in MaskClasses THEN Num(2 ^ channel)
                  ELSE IF k <= Len(args) THEN args[k] ELSE Undef
  IN WriteComponents(os, target, write)

\* target.setScalar(value)
SetScalar(os, target, value) ==
  LET write(k) == value IN WriteComponents(os, target, write)

\* target.copy(value)
Copy(os, target, value) ==
  LET write(k) == Get(os, value, Components(os[target.i].cls)[k])
  IN WriteComponents(os, target, write)

NumArgs(ns) == [k \in 1..Len(ns) |-> Num(ns[k])]

\* the body of the loop of applyProps for one prop
applyProp(st, object, prop, value) ==
  IF prop \in RESERVED_PROPS THEN st
  ELSE LET r == resolve(st.objs, object, Segs(prop))
           how == Strategy(st.objs, r.target, value)
       IN IF r.err THEN Throw(st, "TypeError")
          ELSE CASE how = "assign" -> Assign(st, r.root, r.key, value)
                 [] how = "TypeError" -> Throw(st, "TypeError")
                 [] how = "copy" -> [st EXCEPT !.objs = Copy(st.objs, r.target, value)]
                 [] how = "spread" -> [st EXCEPT !.objs = SetArgs(st.objs, r.target, NumArgs(value.a))]
                 [] how = "setScalar" -> [st EXCEPT !.objs = SetScalar(st.objs, r.target, value)]
                 [] OTHER -> [st EXCEPT !.objs = SetArgs(st.objs, r.target, <<value>>)]

\* applyProps(object, props): the props present, in insertion order
RECURSIVE applyPropsFrom(_, _, _, _)
applyPropsFrom(st, object, props, k) ==
  IF k > Len(PropOrder) \/ st.err # "none" THEN st
  ELSE LET prop == PropOrder[k]
       IN applyPropsFrom(IF prop \notin DOMAIN props THEN st ELSE applyProp(st, object, prop, props[prop]),
                         object, props, k + 1)

applyProps(st, object, props) == applyPropsFrom(st, object, props, 1)

(***************************************************************************)
(* Catalogue.                                                              *)
(***************************************************************************)
\* the lookup name without the capital first letter
toPascalCaseSkipped(type) == type

\* type.charAt(0).toUpperCase() + type.substring(1)
toPascalCase(type) ==
  CASE type = "gridHelper" -> "GridHelper"
    [] type = "meshBasicMaterial" -> "MeshBasicMaterial"
    [] type = "primitive" -> "Primitive"
    [] type = "color" -> "Color"
    [] type = "bufferGeometry" -> "BufferGeometry"
    [] OTHER -> type

\* catalogue[name]: "none" for undefined
Lookup(cat, name) == IF name \in DOMAIN cat THEN cat[name] ELSE "none"

\* the objects extend is called with
Extensions ==
  { [n \in {"GridHelper"} |-> "GridHelper"],
    [n \in {"GridHelper", "MeshBasicMaterial"} |-> n] }

\* Object.assign(catalogue, objects)
ObjectAssign(cat, objects) ==
  [n \in DOMAIN cat \cup DOMAIN objects |-> IF n \in DOMAIN objects THEN objects[n] ELSE cat[n]]

(***************************************************************************)
(* Reconciliation Host.                                                    *)
(***************************************************************************)
\* whether object o is still installed on object p: in its graph child list,
\* in one of its fields, or in a field of an array or holder in its fields
Holds(os, p, o) ==
  \/ \E i \in 1..Len(os[p].children) : os[p].children[i] = o
  \/ \E k \in (DOMAIN os[p].fields) \ {PreviousAttach} :
       \/ os[p].fields[k] = Obj(o)
       \/ /\ os[p].fields[k].t = "object"
          /\ os[p].fields[k].i \in DOMAIN os
          /\ \E j \in (DOMAIN os[os[p].fields[k].i].fields) \ {PreviousAttach} :
               os[os[p].fields[k].i].fields[j] = Obj(o)

\* `new target(...args)`: a fresh object of class target for node child
Construct(st, child, target) ==
  LET k == st.news[child] + 1
      o == ObjOf(child, k)
  IN IF k >= ObjBase THEN Throw(st, "bound")
     ELSE [st EXCEPT !.news[child] = k,
                     !.objs = st.objs @@ (o :> NewObject(target)),
                     !.nodes[child].object = Obj(o)]

\* lines 140-153: link the primitive's object or construct from the catalogue
CreateObject(st, child) ==
  LET n == st.nodes[child]
      target == Lookup(st.cat, toPascalCase(n.type))
  IN IF n.type = "primitive"
     THEN IF ~Truthy(Prop(n.props, "object")) THEN Throw(st, "primitive")
          ELSE [st EXCEPT !.nodes[child].object = n.props["object"]]
     ELSE IF target = "none" THEN Throw(st, "catalogue")
          ELSE Construct(st, child, target)

\* no attach is defaulted
AutoAttachSkipped(st, child) == st

\* lines 155-159: auto-attach geometry and materials
AutoAttach(st, child) ==
  LET n == st.nodes[child]
  IN IF Prop(n.props, "attach") # Undef THEN st
     ELSE IF IsBufferGeometry(st.objs, n.object)
     THEN [st EXCEPT !.nodes[child].props = ("attach" :> Str(<<"geometry">>)) @@ @]
     ELSE IF IsMaterial(st.objs, n.object)
     THEN [st EXCEPT !.nodes[child].props = ("attach" :> Str(<<"material">>)) @@ @]
     ELSE st

\* the commit block entered on every insert
NeedsCommitAlways(st, child) == TRUE

\* `if (!child.object)`
NeedsCommit(st, child) == ~Truthy(st.nodes[child].object)

\* lines 139-163: create object on first commit
Commit(st, child) ==
  IF ~NeedsCommit(st, child) THEN st
  ELSE LET st1 == CreateObject(st, child)
           st2 == AutoAttach(st1, child)
       IN IF st1.err # "none" THEN st1
          ELSE applyProps(st2, st2.nodes[child].object, st2.nodes[child].props)

\* lines 165-167: link nodes
Link(st, parent, child, beforeChild) ==
  [st EXCEPT !.nodes[child].parent = parent,
             !.nodes[parent].children = Append(@, child)]

\* lines 186-189: unlink child node
Unlink(st, parent, child) ==
  LET childIndex == IndexOf(st.nodes[parent].children, child)
  IN [st EXCEPT !.nodes[child].parent = NoNode,
                !.nodes[parent].children = IF childIndex # 0 THEN RemoveAt(@, childIndex) ELSE @]

\* the guard without the test of props.dispose
ShouldDisposeUnlessPrimitive(n) == n.type # "primitive"

\* `child.props.dispose !== null && child.type !== 'primitive'`
ShouldDispose(n) == Prop(n.props, "dispose") # Null /\ n.type # "primitive"

\* line 199: child.object.dispose?.()
Dispose(st, parent, child) ==
  LET n == st.nodes[child]
      po == st.nodes[parent].object
  IN IF ~ShouldDispose(n) THEN st
     ELSE IF IsNullish(n.object) THEN Throw(st, "TypeError")
     ELSE IF ClassOf(st.objs, n.object) \notin DisposableClasses THEN st
     ELSE [st EXCEPT !.objs[n.object.i].disposed = TRUE,
                     !.log = Append(@, [node |-> child, obj |-> n.object.i,
                                        linked |-> child \in Range(st.nodes[parent].children),
                                        held |-> po.t = "object" /\ Holds(st.objs, po.i, n.object.i)])]

\* lines 191-196: remove object from parent
RemoveObject(st, parent, child) ==
  LET n == st.nodes[child]
      po == st.nodes[parent].object
  IN IF Truthy(Prop(n.props, "attach")) THEN detach(st, parent, child)
     ELSE IF IsObject3D(st.objs, po) /\ IsObject3D(st.objs, n.object)
     THEN [st EXCEPT !.objs = Object3DRemove(st.objs, po.i, n.object.i)]
     ELSE st

removeNode(st, parent, child) ==
  LET st1 == Unlink(st, parent, child)
      st2 == RemoveObject(st1, parent, child)
  IN IF st2.err # "none" THEN st2 ELSE Dispose(st2, parent, child)

\* lines 173-182: splice the child before beforeChild's object, or add it
AddObject(st, parent, child, beforeChild) ==
  LET po == st.nodes[parent].object.i
      co == st.nodes[child].object.i
      bo == IF beforeChild = NoNode THEN Undef ELSE st.nodes[beforeChild].object
      objectIndex == IF bo.t = "object" THEN IndexOf(st.objs[po].children, bo.i) - 1 ELSE -1
      st1 == removeNode(st, parent, beforeChild)
  IN IF objectIndex # -1
     THEN IF st1.err # "none" THEN st1
          ELSE [st1 EXCEPT !.objs = [st1.objs EXCEPT ![co].parent = Obj(po),
                                                     ![po].children = InsertAt(@, objectIndex, co)]]
     ELSE [st EXCEPT !.objs = Object3DAdd(st.objs, po, co)]

\* lines 169-183: add or manually splice child
InsertObject(st, parent, child, beforeChild) ==
  IF Truthy(Prop(st.nodes[child].props, "attach")) THEN attach(st, parent, child)
  ELSE IF IsObject3D(st.objs, st.nodes[parent].object) /\ IsObject3D(st.objs, st.nodes[child].object)
  THEN AddObject(st, parent, child, beforeChild)
  ELSE st

\* the nodes linked before the commit block runs
insertNodeLinkFirst(st, parent, child, beforeChild) ==
  LET st1 == Commit(Link(st, parent, child, beforeChild), child)
  IN IF st1.err # "none" THEN st1
     ELSE InsertObject(st1, parent, child, beforeChild)

insertNode(st, parent, child, beforeChild) ==
  LET st1 == Commit(st, child)
  IN IF st1.err # "none" THEN st1
     ELSE InsertObject(Link(st1, parent, child, beforeChild), parent, child, beforeChild)

\* the prop written to the node only
setPropertyStoreOnly(st, node, key, value) ==
  [st EXCEPT !.nodes[node].props = (key :> value) @@ @]

\* lines 130-136
setProperty(st, node, key, value) ==
  LET st1 == [st EXCEPT !.nodes[node].props = (key :> value) @@ @]
  IN IF Truthy(st1.nodes[node].object)
     THEN applyProp(st1, st1.nodes[node].object, key, value)
     ELSE st1

\* lines 121-129
createElement(type) ==
  [type |-> type, parent |-> NoNode, children |-> <<>>, object |-> Null,
   props |-> [k \in {"args"} |-> Arr(<<>>)]]

\* lines 201-210: navigation; NoNode for undefined
getParentNode(ns, node) == ns[node].parent
getFirstChild(ns, node) == IF ns[node].children = <<>> THEN NoNode ELSE ns[node].children[1]
getNextSibling(ns, node) ==
  LET index == IndexOf(ns[ns[node].parent].children, node) - 1
  IN IF index + 2 <= Len(ns[node].children) /\ index + 2 >= 1
     THEN ns[node].children[index + 2] ELSE NoNode

(***************************************************************************)
(* The state machine: the host operations the diffing engine calls.        *)
(***************************************************************************)
\* the root container of src/src/index.tsx: { type: '', parent: null, children: [], object: scene, props: {} }
RootNode ==
  [type |-> "", parent |-> NoNode, children |-> <<>>, object |-> Obj(Scene),
   props |-> << >>]

Init ==
  /\ nodes = (Root :> RootNode)
  /\ objs = (Scene :> NewObject("Scene")) @@ (ExtObject :> NewObject("GridHelper"))
  /\ catalogue = << >>
  /\ news = (Root :> 0)
  /\ result = "ok"
  /\ disposals = <<>>
  /\ ops = 0
  /\ probe = <<>>

Start == [nodes |-> nodes, objs |-> objs, news |-> news, cat |-> catalogue, log |-> <<>>, err |-> "none"]

\* one more operation, within the bound on the length of a run
Tick ==
  /\ ops < MaxOps
  /\ ops' = ops + 1

\* the handler ran from the current state and left st
Run(st) ==
  /\ Tick
  /\ st.err # "bound"
  /\ nodes' = st.nodes
  /\ objs' = st.objs
  /\ news' = st.news
  /\ result' = IF st.err = "none" THEN "ok" ELSE st.err
  /\ disposals' = st.log
  /\ UNCHANGED catalogue

Finish(st) == Run(st) /\ UNCHANGED probe

\* the (key, value) pairs setProperty is called with
PropInputs(n) ==
  {<<"attach", Str(<<"foo">>)>>, <<"dispose", Null>>}
  \cup (IF n.type = "primitive" THEN {<<"object", Obj(ExtObject)>>} ELSE {})

Extend(objects) ==
  /\ Tick
  /\ catalogue' = ObjectAssign(catalogue, objects)
  /\ result' = "ok"
  /\ disposals' = <<>>
  /\ UNCHANGED <<nodes, objs, news, probe>>

CreateElement(type) ==
  LET n == Cardinality(DOMAIN nodes)
  IN /\ Tick
     /\ n <= MaxNodes
     /\ nodes' = nodes @@ (n :> createElement(type))
     /\ news' = news @@ (n :> 0)
     /\ result' = "ok"
     /\ disposals' = <<>>
     /\ UNCHANGED <<objs, catalogue, probe>>

SetProperty(node, key, value) ==
  Finish(setProperty(Start, node, key, value))

InsertNode(parent, child, beforeChild) ==
  Finish(insertNode(Start, parent, child, beforeChild))

RemoveNode(parent, child) ==
  Finish(removeNode(Start, parent, child))

\* the (parent, child, beforeChild) triples insertNode is called with:
\* beforeChild is absent or another child of parent
InsertInputs ==
  {x \in (DOMAIN nodes) \X (DOMAIN nodes) \X ((DOMAIN nodes) \cup {NoNode}) :
     /\ x[2] \notin {Root, x[1]}
     /\ x[3] \in {NoNode} \cup (Range(nodes[x[1]].children) \ {x[2]})}

\* the (parent, child) pairs removeNode is called with: child is a child of parent
RemoveInputs ==
  {x \in (DOMAIN nodes) \X (DOMAIN nodes) : x[2] \in Range(nodes[x[1]].children)}

Next ==
  \/ \E objects \in Extensions : Extend(objects)
  \/ \E type \in Types : CreateElement(type)
  \/ \E node \in DOMAIN nodes \ {Root} : \E kv \in PropInputs(nodes[node]) :
       SetProperty(node, kv[1], kv[2])
  \/ \E x \in InsertInputs : InsertNode(x[1], x[2], x[3])
  \/ \E x \in RemoveInputs : RemoveNode(x[1], x[2])

Spec == Init /\ [][Next]_vars

(***************************************************************************)
(* The attachment scenarios: two created nodes with a string attach        *)
(* declaration are inserted under and removed from the root container,     *)
(* whose scene may already hold a value in `foo`.                          *)
(***************************************************************************)
\* the attach paths of the scenarios
AttachPaths == {<<"foo">>, <<"foo", "bar">>, <<"foo", "0">>, <<"foo", "1">>}
AttachChildren == {1, 2}

\* a created node after setProperty(node, 'attach', path)
AttachNode(type, path) ==
  [createElement(type) EXCEPT !.props = ("attach" :> Str(path)) @@ @]

\* the scene with nothing in foo, with a holder in foo whose bar is null, and
\* with a holder in foo whose bar is a Color
SceneObjects ==
  { (Scene :> NewObject("Scene")),
    (Scene :> [NewObject("Scene") EXCEPT !.fields = ("foo" :> Obj(DefaultFoo))])
      @@ (DefaultFoo :> [NewObject("Object") EXCEPT !.fields = ("bar" :> Null)]),
    (Scene :> [NewObject("Scene") EXCEPT !.fields = ("foo" :> Obj(DefaultFoo))])
      @@ (DefaultFoo :> [NewObject("Object") EXCEPT !.fields = ("bar" :> Obj(DefaultBar))])
      @@ (DefaultBar :> NewObject("Color")) }

InitAttach ==
  /\ \E t1 \in AttachTypes, t2 \in AttachTypes, a1 \in AttachPaths, a2 \in AttachPaths :
       nodes = (Root :> RootNode) @@ (1 :> AttachNode(t1, a1)) @@ (2 :> AttachNode(t2, a2))
  /\ objs \in SceneObjects
  /\ catalogue = [n \in {"Color", "MeshBasicMaterial"} |-> n]
  /\ news = [n \in {Root} \cup AttachChildren |-> 0]
  /\ result = "ok"
  /\ disposals = <<>>
  /\ ops = 0
  /\ probe = <<>>

\* what the child's attach path leads to on the scene, undefined when the path
\* cannot be walked
Slot(os, child) ==
  Walk(os, Obj(Scene), Prop(nodes[child].props, "attach").s).v

\* the record of a call: the operation, the child, whether it returned
\* normally, and what the child's slot and the scene's foo held before it
Probe(op, child, st) ==
  [op |-> op, child |-> child, ok |-> st.err = "none",
   slot |-> Slot(objs, child), foo |-> Get(objs, Obj(Scene), "foo")]

\* insertNode(root, child) for a child not linked under the root
AttachChild(child) ==
  LET st == insertNode(Start, Root, child, NoNode)
  IN /\ child \notin Range(nodes[Root].children)
     /\ Run(st)
     /\ probe' = Append(probe, Probe("attach", child, st))

\* removeNode(root, child) for a child linked under the root
DetachChild(child) ==
  LET st == removeNode(Start, Root, child)
  IN /\ child \in Range(nodes[Root].children)
     /\ Run(st)
     /\ probe' = Append(probe, Probe("detach", child, st))

NextAttach ==
  \/ \E child \in AttachChildren : AttachChild(child)
  \/ \E child \in AttachChildren : DetachChild(child)

SpecAttach == InitAttach /\ [][NextAttach]_vars

(***************************************************************************)
(* The commit scenarios: classes are registered under several names, nodes *)
(* of graph, material and geometry types are created, given an attach      *)
(* declaration or none, and inserted under the root or under each other.   *)
(***************************************************************************)
CommitTypes == {"gridHelper", "meshBasicMaterial", "bufferGeometry"}

\* the objects extend is called with: a class under its own name, two
\* classes at once, a class under a lower-case name, and another class under
\* a name already registered
CommitExtensions ==
  { [n \in {"GridHelper"} |-> "GridHelper"],
    [n \in {"MeshBasicMaterial", "BufferGeometry"} |-> n],
    [n \in {"meshBasicMaterial"} |-> "MeshBasicMaterial"],
    [n \in {"GridHelper"} |-> "Object3D"] }

\* the attach declarations set-property is called with
CommitAttach == {Str(<<"foo">>), Null}

\* the (parent, child) pairs of the inserts: the child is not linked yet
CommitInputs ==
  {x \in (DOMAIN nodes) \X (DOMAIN nodes) :
     /\ x[2] \notin {Root, x[1]}
     /\ \A p \in DOMAIN nodes : x[2] \notin Range(nodes[p].children)}

NextCommit ==
  \/ \E objects \in CommitExtensions : Extend(objects)
  \/ \E type \in CommitTypes : CreateElement(type)
  \/ \E node \in DOMAIN nodes \ {Root} : \E value \in CommitAttach :
       SetProperty(node, "attach", value)
  \/ \E x \in CommitInputs : InsertNode(x[1], x[2], NoNode)

SpecCommit == Init /\ [][NextCommit]_vars

(***************************************************************************)
(* The property scenarios: one node, a primitive wrapping an externally    *)
(* built object that has a name, a Color, a Vector2 and a Layers, or a     *)
(* material constructed from the catalogue, is given props before and      *)
(* after it is inserted under the root.                                    *)
(***************************************************************************)
PropNode == 1
PropTypes == {"primitive", "meshBasicMaterial"}

\* an object of class cls with the given fields
ObjectWith(cls, fields) == [NewObject(cls) EXCEPT !.fields = fields]

\* the externally built object, its members and the objects used as values
PropObjects ==
  (Scene :> NewObject("Scene"))
  @@ (ExtObject :> ObjectWith("GridHelper",
        [k \in {"name", "color", "uv", "layers"} |->
           CASE k = "name" -> Str(<<>>)
             [] k = "color" -> Obj(TargetColor)
             [] k = "uv" -> Obj(TargetVector)
             [] k = "layers" -> Obj(TargetLayers)]))
  @@ (TargetColor :> ObjectWith("Color", [k \in {"r", "g", "b"} |-> Num(1)]))
  @@ (TargetVector :> ObjectWith("Vector2", [k \in {"x", "y"} |-> Num(0)]))
  @@ (TargetLayers :> ObjectWith("Layers", [k \in {"mask"} |-> Num(1)]))
  @@ (ValueColor :> ObjectWith("Color", [k \in {"r", "g", "b"} |-> Num(0)]))
  @@ (ValueVector :> ObjectWith("Vector2", [k \in {"x", "y"} |-> Num(3)]))

\* the (key, value) pairs set-property is called with
PropCalls ==
  { <<"name", Str(<<"x">>)>>, <<"name", Undef>>,
    <<"color", Num(255)>>, <<"color", Arr(<<1, 0, 1>>)>>, <<"color", Obj(ValueColor)>>,
    <<"color", Undef>>,
    <<"uv", Num(2)>>, <<"uv", Arr(<<1, 2>>)>>, <<"uv", Obj(ValueVector)>>,
    <<"uv", Obj(ValueColor)>>,
    <<"layers", Num(1)>>, <<"layers", Arr(<<2>>)>>, <<"layers", Obj(TargetLayers)>>,
    <<"dispose", Null>>, <<"attach", Str(<<"foo">>)>>, <<"args", Arr(<<1>>)>>,
    <<"object", Obj(ExtObject)>> }

InitProps ==
  /\ \E type \in PropTypes :
       nodes = (Root :> RootNode)
               @@ (PropNode :> [createElement(type) EXCEPT !.props =
                      IF type = "primitive" THEN ("object" :> Obj(ExtObject)) @@ @ ELSE @])
  /\ objs = PropObjects
  /\ catalogue = [n \in {"MeshBasicMaterial"} |-> n]
  /\ news = [n \in {Root, PropNode} |-> 0]
  /\ result = "ok"
  /\ disposals = <<>>
  /\ ops = 0
  /\ probe = <<>>

SetProp(key, value) == ops < MaxSets /\ SetProperty(PropNode, key, value)

InsertProp ==
  /\ ops < MaxSets
  /\ PropNode \notin Range(nodes[Root].children)
  /\ InsertNode(Root, PropNode, NoNode)

RemoveProp ==
  /\ ops < MaxSets
  /\ PropNode \in Range(nodes[Root].children)
  /\ RemoveNode(Root, PropNode)

NextProps ==
  \/ \E kv \in PropCalls : SetProp(kv[1], kv[2])
  \/ InsertProp
  \/ RemoveProp

SpecProps == InitProps /\ [][NextProps]_vars

(***************************************************************************)
(* The re-declaration scenarios: one child with an attach declaration, a   *)
(* path or an installer function, is inserted under the root, has its      *)
(* attach declaration set again, and is removed.                           *)
(***************************************************************************)
ReattachChild == 1

\* the attach declarations of the child: two paths of the scene and the
\* installer function, and undefined for a declaration that is withdrawn
ReattachDeclared == {Str(<<"foo">>), Str(<<"baz">>), Fn(Installer)}
ReattachValues == ReattachDeclared \cup {Undef}

InitReattach ==
  /\ \E type \in AttachTypes, a \in ReattachDeclared :
       nodes = (Root :> RootNode)
               @@ (ReattachChild :> [createElement(type) EXCEPT !.props = ("attach" :> a) @@ @])
  /\ objs \in SceneObjects
  /\ catalogue = [n \in {"Color", "MeshBasicMaterial"} |-> n]
  /\ news = [n \in {Root, ReattachChild} |-> 0]
  /\ result = "ok"
  /\ disposals = <<>>
  /\ ops = 0
  /\ probe = <<>>

\* the record of a call that left st: the operation, whether it returned
\* normally, the attach declaration the call worked with, and the own fields
\* of the scene before it
ReattachProbe(op, st) ==
  [op |-> op, ok |-> st.err = "none",
   attach |-> Prop(st.nodes[ReattachChild].props, "attach"),
   scene |-> objs[Scene].fields]

\* insertNode(root, child) for the child not linked under the root
InsertDeclared ==
  LET st == insertNode(Start, Root, ReattachChild, NoNode)
  IN /\ ReattachChild \notin Range(nodes[Root].children)
     /\ Run(st)
     /\ probe' = Append(probe, ReattachProbe("attach", st))

\* setProperty(child, 'attach', value)
Redeclare(value) == SetProperty(ReattachChild, "attach", value)

\* removeNode(root, child) for the child linked under the root
RemoveDeclared ==
  LET st == removeNode(Start, Root, ReattachChild)
  IN /\ ReattachChild \in Range(nodes[Root].children)
     /\ Run(st)
     /\ probe' = Append(probe, ReattachProbe("detach", st))

NextReattach ==
  \/ InsertDeclared
  \/ \E value \in ReattachValues : Redeclare(value)
  \/ RemoveDeclared

SpecReattach == InitReattach /\ [][NextReattach]_vars

(***************************************************************************)
(* Claims about the host operations, under Spec.                           *)
(***************************************************************************)
\* the sequence without the entries equal to x
RECURSIVE Without(_, _)
Without(seq, x) ==
  IF seq = <<>> THEN <<>>
  ELSE IF Head(seq) = x THEN Without(Tail(seq), x)
  ELSE <<Head(seq)>> \o Without(Tail(seq), x)

\* the nodes linked under a parent: parent reference set and present in its children
Linked(n) == nodes[n].parent # NoNode /\ n \in Range(nodes[nodes[n].parent].children)

\* the element after the first occurrence of x in seq, NoNode when there is none
Following(seq, x) ==
  LET i == IndexOf(seq, x) IN IF i # 0 /\ i < Len(seq) THEN seq[i + 1] ELSE NoNode

\* C1: after insert(parent, child, beforeChild), the child sits immediately
\* before beforeChild in parent.children when beforeChild was one of the
\* parent's children, and is the last element when beforeChild is absent.
C1_InsertRespectsBeforeChild ==
  [][\A x \in InsertInputs :
       (InsertNode(x[1], x[2], x[3]) /\ result' = "ok") =>
         LET cs == nodes'[x[1]].children
         IN IF x[3] # NoNode
            THEN \E i \in 1..(Len(cs) - 1) : cs[i] = x[2] /\ cs[i + 1] = x[3]
            ELSE cs # <<>> /\ cs[Len(cs)] = x[2]]_vars

\* C2: when parent and child objects are graph objects, the child declares no
\* attach and beforeChild's object is at index i of the parent's graph child
\* list, then after the insert the child's object is at index i, beforeChild's
\* object at index i + 1, and the other graph children keep their order.
C2_GraphInsertShifts ==
  [][\A x \in InsertInputs :
       (/\ InsertNode(x[1], x[2], x[3])
        /\ result' = "ok"
        /\ x[3] # NoNode
        /\ IsObject3D(objs', nodes'[x[1]].object)
        /\ IsObject3D(objs', nodes'[x[2]].object)
        /\ ~Truthy(Prop(nodes'[x[2]].props, "attach"))
        /\ nodes[x[3]].object.t = "object"
        /\ IndexOf(objs[nodes[x[1]].object.i].children, nodes[x[3]].object.i) # 0) =>
         LET po == nodes[x[1]].object.i
             co == nodes'[x[2]].object.i
             bo == nodes[x[3]].object.i
             i == IndexOf(objs[po].children, bo)
             after == objs'[po].children
         IN /\ Len(after) >= i + 1
            /\ after[i] = co
            /\ after[i + 1] = bo
            /\ Without(after, co) = Without(objs[po].children, co)]_vars

\* C3: getNextSibling of a linked node is the node that follows it in its
\* parent's children sequence, nothing when it is the last child.
C3_NextSiblingPositional ==
  \A n \in DOMAIN nodes :
    Linked(n) => getNextSibling(nodes, n) = Following(nodes[nodes[n].parent].children, n)

\* C4: removing a linked, committed node unlinks it from its parent's children
\* sequence and, when it is not a primitive, disposal is not suppressed and the
\* object has a dispose method, dispose is invoked exactly once for the removal,
\* after the node left the logical tree and the object left the graph list or
\* attach slot.
C4_RemoveUnlinksThenDisposesOnce ==
  [][\A x \in RemoveInputs :
       (RemoveNode(x[1], x[2]) /\ result' = "ok" /\ Truthy(nodes[x[2]].object)) =>
         LET n == nodes[x[2]]
             mine == {i \in 1..Len(disposals') : disposals'[i].obj = n.object.i}
         IN /\ x[2] \notin Range(nodes'[x[1]].children)
            /\ (ShouldDispose(n) /\ ClassOf(objs, n.object) \in DisposableClasses) =>
                 /\ Cardinality(mine) = 1
                 /\ \A i \in mine : ~disposals'[i].linked /\ ~disposals'[i].held]_vars

\* C5: the host never disposes the object of a primitive node nor the object
\* of a node whose props.dispose is null: no dispose() call of an operation is
\* on the object of such a node.
C5_NeverDisposesSuppressed ==
  \A i \in 1..Len(disposals) : \A n \in DOMAIN nodes :
    nodes[n].object = Obj(disposals[i].obj) =>
      nodes[n].type # "primitive" /\ Prop(nodes[n].props, "dispose") # Null

\* a node with props.dispose null and an object that has dispose() was
\* committed and then removed, and its object is not disposed
C5_Witness ==
  \E n \in DOMAIN nodes \ {Root} :
    /\ Prop(nodes[n].props, "dispose") = Null
    /\ nodes[n].type # "primitive"
    /\ ClassOf(objs, nodes[n].object) \in DisposableClasses
    /\ nodes[n].parent = NoNode
    /\ \A p \in DOMAIN nodes : n \notin Range(nodes[p].children)
    /\ ~objs[nodes[n].object.i].disposed

\* C8: create leaves the node without an object; a node gets its object in
\* the insert that first links it, constructed once for a catalogue type; no
\* operation replaces the object of a node that has one or constructs for it
\* again, so a node's object is constructed at most once.
C8_ObjectCreatedOnce ==
  [][/\ \A n \in (DOMAIN nodes') \ (DOMAIN nodes) :
          nodes'[n].object = Null /\ news'[n] = 0
     /\ \A n \in DOMAIN nodes :
          /\ Truthy(nodes[n].object) => nodes'[n].object = nodes[n].object /\ news'[n] = news[n]
          /\ news'[n] <= 1
          /\ (~Truthy(nodes[n].object) /\ Truthy(nodes'[n].object)) =>
               /\ n \in Range(nodes'[nodes'[n].parent].children)
               /\ n \notin Range(nodes[nodes'[n].parent].children)
               /\ nodes[n].type # "primitive" => news'[n] = 1 /\ news[n] = 0
          /\ (n # Root /\ \E p \in DOMAIN nodes : n \in Range(nodes'[p].children)) =>
               Truthy(nodes'[n].object)]_vars

\* a node constructed once is linked again after a removal that disposed its object
C8_Witness ==
  \E n \in DOMAIN nodes \ {Root} :
    /\ news[n] = 1
    /\ Linked(n)
    /\ objs[nodes[n].object.i].disposed

\* C9: a node with a non-empty attach declaration does not have its object in
\* its parent object's graph child list.
C9_AttachExcludesGraph ==
  \A p \in DOMAIN nodes : \A c \in Range(nodes[p].children) :
    (Truthy(Prop(nodes[c].props, "attach")) /\ nodes[p].object.t = "object"
       /\ nodes[c].object.t = "object") =>
      nodes[c].object.i \notin Range(objs[nodes[p].object.i].children)

\* the objects of the graph-linked children of p, in the order of p's children
RECURSIVE GraphChildren(_, _)
GraphChildren(ns, cs) ==
  IF cs = <<>> THEN <<>>
  ELSE (IF ~Truthy(Prop(ns[Head(cs)].props, "attach")) /\ IsObject3D(objs, ns[Head(cs)].object)
        THEN <<ns[Head(cs)].object.i>> ELSE <<>>) \o GraphChildren(ns, Tail(cs))

\* C10: for every node whose object is a graph object, the objects of its
\* non-attached graph-type children, in the order of its children sequence,
\* are exactly the object's graph child list.
C10_ChildrenMatchGraph ==
  \A p \in DOMAIN nodes :
    IsObject3D(objs, nodes[p].object) =>
      GraphChildren(nodes, nodes[p].children) = objs[nodes[p].object.i].children

\* what every insert of child under parent leaves: an error of the commit, or
\* the child's parent reference set to parent
InsertedUnder(parent, child) ==
  result' \in {"primitive", "catalogue"} \/ nodes'[child].parent = parent

\* the commit of node n cannot succeed: it has no object and is a primitive
\* without an object reference or of a type the catalogue does not hold
Uncommittable(n) ==
  /\ ~Truthy(nodes[n].object)
  /\ IF nodes[n].type = "primitive" THEN ~Truthy(Prop(nodes[n].props, "object"))
     ELSE toPascalCase(nodes[n].type) \notin DOMAIN catalogue

\* C12: an insert of an uncommitted child whose type is not in the catalogue,
\* or of an uncommitted primitive without an object reference, ends with that
\* error and changes nothing: the nodes (the child's object and parent, every
\* children sequence), the objects (graph child lists, slots) and the
\* construction counts are as before.
C12_FailedCommitChangesNothing ==
  [][/\ result' \in {"primitive", "catalogue"} =>
          nodes' = nodes /\ objs' = objs /\ news' = news /\ disposals' = <<>>
     /\ \A child \in (DOMAIN nodes) \ {Root} :
          Uncommittable(child) =>
            \A parent \in (DOMAIN nodes) \ {child} :
              \A beforeChild \in {NoNode} \cup (Range(nodes[parent].children) \ {child}) :
                (InsertedUnder(parent, child) /\ InsertNode(parent, child, beforeChild)) =>
                  result' = (IF nodes[child].type = "primitive" THEN "primitive"
                             ELSE "catalogue")]_vars

\* an insert of a primitive without an object reference has just failed under
\* a root that has a linked child
C12_Witness ==
  /\ result = "primitive"
  /\ nodes[Root].children # <<>>
  /\ \E n \in DOMAIN nodes \ {Root} :
       /\ nodes[n].type = "primitive" /\ nodes[n].object = Null /\ nodes[n].parent = NoNode
       /\ n \notin Range(nodes[Root].children)

\* C19: an insert leaves every node other than the inserted child where it
\* is: its parent reference, its place in every children sequence and the
\* value of its attach slot are as before, and no object is disposed.
C19_InsertTouchesChildOnly ==
  [][\A x \in InsertInputs :
       InsertNode(x[1], x[2], x[3]) =>
         /\ disposals' = <<>>
         /\ \A n \in (DOMAIN nodes) \ {x[2]} :
              /\ nodes'[n].parent = nodes[n].parent
              /\ \A p \in DOMAIN nodes :
                   n \in Range(nodes[p].children) => n \in Range(nodes'[p].children)
              /\ \A o \in DOMAIN objs :
                   PreviousAttach \in DOMAIN objs[o].fields /\ nodes[n].object = Obj(o) =>
                     PreviousAttach \in DOMAIN objs'[o].fields]_vars

\* C20: no node present in a children sequence has an object on which
\* dispose() was called.
C20_LinkedNeverDisposed ==
  \A p \in DOMAIN nodes : \A c \in Range(nodes[p].children) :
    nodes[c].object.t = "object" => ~objs[nodes[c].object.i].disposed

\* the number of places of seq that hold x
Occurrences(seq, x) == Cardinality({i \in 1..Len(seq) : seq[i] = x})

\* C21: no node occurs more than once in a children sequence, and a node's
\* parent reference is p exactly when the node occurs in p's children.
C21_TreeWellFormed ==
  \A p \in DOMAIN nodes : \A n \in DOMAIN nodes :
    /\ Occurrences(nodes[p].children, n) <= 1
    /\ nodes[n].parent = p <=> n \in Range(nodes[p].children)

(***************************************************************************)
(* Claims about attach and detach, under SpecAttach.                       *)
(***************************************************************************)
\* the last two calls attached a child and then detached the same child, both
\* returning normally
AttachedThenDetached ==
  LET k == Len(probe)
  IN /\ k >= 2
     /\ probe[k - 1].op = "attach" /\ probe[k - 1].ok
     /\ probe[k].op = "detach" /\ probe[k].ok
     /\ probe[k].child = probe[k - 1].child

\* C6: attaching a child with a string attach path and then detaching it
\* leaves the slot of the parent object holding the value it held just before
\* the attach, and leaves the child object without its __previousAttach field.
C6_AttachDetachRestores ==
  AttachedThenDetached =>
    LET k == Len(probe)
        child == probe[k].child
    IN /\ Slot(objs, child) = probe[k - 1].slot
       /\ PreviousAttach \notin DOMAIN objs[nodes[child].object.i].fields

\* the run attached one child at "foo-0", then the other at "foo-1", then
\* detached both, every call returning normally, from a scene whose foo was
\* not an array
ArraySlotRoundTrip ==
  /\ Len(probe) = 4
  /\ \A k \in 1..4 : probe[k].ok
  /\ probe[1].op = "attach" /\ probe[2].op = "attach"
  /\ probe[3].op = "detach" /\ probe[4].op = "detach"
  /\ probe[1].child # probe[2].child /\ probe[3].child # probe[4].child
  /\ Prop(nodes[probe[1].child].props, "attach") = Str(<<"foo", "0">>)
  /\ Prop(nodes[probe[2].child].props, "attach") = Str(<<"foo", "1">>)
  /\ ~IsArray(objs, probe[1].foo)

\* C7: from a scene whose foo is not an array, attaching one child at "foo-0"
\* and another at "foo-1" and then detaching both leaves foo holding the value
\* it held at the start.
C7_ArraySlotInverse ==
  ArraySlotRoundTrip => Get(objs, Obj(Scene), "foo") = probe[1].foo

\* both children declare attach "foo" and every call so far returned normally
SameSlotRun ==
  /\ Len(probe) >= 1
  /\ \A k \in 1..Len(probe) : probe[k].ok
  /\ \A c \in AttachChildren : Prop(nodes[c].props, "attach") = Str(<<"foo">>)

\* C16: when the children inserted and removed all attach to the slot foo of
\* the scene, then after any calls the slot holds the object of a child that
\* is still linked, and once no child is linked it holds the value it held
\* before the first attach.
C16_SharedSlotAnyOrder ==
  SameSlotRun =>
    LET linked == AttachChildren \cap Range(nodes[Root].children)
        foo == Get(objs, Obj(Scene), "foo")
    IN IF linked = {} THEN foo = probe[1].foo
       ELSE \E c \in linked : foo = nodes[c].object

\* C17: after an attach with a string path that returned normally, walking the
\* whole path from the scene yields the child's object, and the child's
\* __previousAttach is the value that walk yielded before the attach.
C17_AttachOverwritesFullPath ==
  LET k == Len(probe)
  IN (k >= 1 /\ probe[k].op = "attach" /\ probe[k].ok) =>
       /\ Slot(objs, probe[k].child) = nodes[probe[k].child].object
       /\ Get(objs, nodes[probe[k].child].object, PreviousAttach) = probe[k].slot

(***************************************************************************)
(* Claims about commit and the catalogue, under SpecCommit.                *)
(***************************************************************************)
\* node n has no object before the step and has one after it
Committed(n) == ~Truthy(nodes[n].object) /\ Truthy(nodes'[n].object)

Capitalized ==
  [t \in CommitTypes |->
     CASE t = "gridHelper" -> "GridHelper"
       [] t = "meshBasicMaterial" -> "MeshBasicMaterial"
       [] t = "bufferGeometry" -> "BufferGeometry"]

\* C15: every name registered in the catalogue stays registered in every
\* step; an insert of an uncommitted node of a type other than 'primitive'
\* raises the unregistered-type error exactly when the catalogue has no entry
\* under the type with its first letter capitalized, and otherwise constructs
\* an object of the class registered under that name.
C15_CatalogueAdditiveLookup ==
  [][/\ DOMAIN catalogue \subseteq DOMAIN catalogue'
     /\ \A child \in (DOMAIN nodes) \ {Root} :
          (/\ ~Truthy(nodes[child].object)
           /\ nodes[child].type # "primitive"
           /\ nodes[child].parent = NoNode) =>
            \A parent \in (DOMAIN nodes) \ {child} :
              (InsertedUnder(parent, child) /\ InsertNode(parent, child, NoNode)) =>
                LET name == Capitalized[nodes[child].type]
                IN IF name \in DOMAIN catalogue
                   THEN /\ result' # "catalogue"
                        /\ ClassOf(objs', nodes'[child].object) = catalogue[name]
                   ELSE /\ result' = "catalogue"
                        /\ nodes'[child].object = Null]_vars

\* a name was registered twice and a node of that type constructed the class
\* registered last, while a node whose type is registered only under a
\* lower-case name is still uncommitted after a failed insert
C15_Witness ==
  /\ result = "catalogue"
  /\ "meshBasicMaterial" \in DOMAIN catalogue
  /\ "MeshBasicMaterial" \notin DOMAIN catalogue
  /\ \E n \in DOMAIN nodes \ {Root} :
       nodes[n].type = "gridHelper" /\ ClassOf(objs, nodes[n].object) = "Object3D"

(***************************************************************************)
(* Claims about the Property Applier and set-property, under SpecProps.    *)
(***************************************************************************)
\* what a write of value to the member key of object o has to leave, by the
\* stated priority: plain assignment, copy, spread, scalar set, generic set
WrittenByPriority(os, after, o, key, value) ==
  LET target == Get(os, o, key)
      cls == ClassOf(os, target)
  IN IF ~HasSet(os, target) THEN after = Put(os, o, key, value)
     ELSE IF cls \in CopyClasses /\ ClassOf(os, value) = cls
     THEN after = Copy(os, target, value)
     ELSE IF value.t = "array"
     THEN after = SetArgs(os, target, NumArgs(value.a))
     ELSE IF cls \notin ColorClasses /\ cls \in ScalarClasses
     THEN after = SetScalar(os, target, value)
     ELSE after = SetArgs(os, target, <<value>>)

\* C13: a set-property of a non-reserved key on a committed node returns
\* normally and writes by the stated priority: without a set capability the
\* value is assigned; else a copy-capable target given a value of its own
\* class copies it and stays the same object; else a sequence is spread into
\* set; else a non-color target with setScalar gets the scalar in every
\* component; else the value is passed alone to set.
C13_WriteStrategyPriority ==
  [][\A kv \in PropCalls :
       (/\ kv[1] \notin RESERVED_PROPS
        /\ Truthy(nodes[PropNode].object)
        /\ SetProp(kv[1], kv[2])) =>
         /\ result' = "ok"
         /\ WrittenByPriority(objs, objs', nodes[PropNode].object, kv[1], kv[2])]_vars

\* C14: no object ever has an own member named by a reserved key (args,
\* attach, object, dispose), and the object of a committed node has a member
\* for every non-reserved key the node declares.
C14_ReservedKeysNotWritten ==
  /\ \A o \in DOMAIN objs : DOMAIN objs[o].fields \cap {"args", "attach", "object", "dispose"} = {}
  /\ \A n \in DOMAIN nodes :
       Truthy(nodes[n].object) =>
         (DOMAIN nodes[n].props) \ {"args", "attach", "object", "dispose"}
           \subseteq DOMAIN objs[nodes[n].object.i].fields

\* a committed material node declares the four reserved keys and a name
C14_Witness ==
  /\ nodes[PropNode].type = "meshBasicMaterial"
  /\ Truthy(nodes[PropNode].object)
  /\ {"args", "attach", "object", "dispose", "name"} \subseteq DOMAIN nodes[PropNode].props

InstalledBy(a) ==
  /\ probe # <<>>
  /\ probe[Len(probe)].op = "attach" /\ probe[Len(probe)].ok
  /\ probe[Len(probe)].attach = a
  /\ a.t \in {"string", "function"}
  /\ ReattachChild \in Range(nodes[Root].children)

\* the own fields of the scene after the installation by a is undone, given
\* the fields before the installation and the fields before the removal: the
\* slot of a path holds its previous occupant again, the reversal of the
\* installer has cleared bar, and every other field is as it was
Undone(a, before, now) ==
  IF a.t = "string"
  THEN [k \in DOMAIN now \cup {a.s[1]} |->
          IF k = a.s[1] THEN Prop(before, k) ELSE Prop(now, k)]
  ELSE [k \in DOMAIN now \cup {"bar"} |-> IF k = "bar" THEN Undef ELSE Prop(now, k)]

\* C22: removeNode undoes the attachment that insertNode performed, whatever
\* setProperty made of the attach declaration in between: it returns normally,
\* the slot the child was installed in holds its previous occupant again (for
\* a function, the reversal it returned has run), and no other field of the
\* parent's object is written.
C22_RemoveUndoesInstalledAttach ==
  [][\A a \in ReattachDeclared :
       (InstalledBy(a) /\ RemoveDeclared) =>
         /\ result' = "ok"
         /\ LET want == Undone(a, probe[Len(probe)].scene, objs[Scene].fields)
            IN \A k \in DOMAIN want \cup DOMAIN objs'[Scene].fields :
                 Prop(objs'[Scene].fields, k) = Prop(want, k)]_vars

====
